---- MODULE Spec2Model ----
(***************************************************************************)
(* Bluetooth HID protocol (HIDP) message codec: src/hidp.rs.               *)
(*                                                                         *)
(* The codec is a pair of pure functions, Message::as_bytes and            *)
(* Message::read_from, over a one-byte Header (two nibbles).  The state    *)
(* machine below draws an input (a Message, a byte buffer or a Header),    *)
(* applies the functions to it as the code computes them and keeps the     *)
(* input and every result in the state.                                    *)
(***************************************************************************)
EXTENDS Integers, Sequences

VARIABLES
    op,        \* which call sequence this run exercises: "encode", "decode", "pack"
    pc,        \* position in that call sequence
    msg,       \* encode: the Message handed to as_bytes
    buf,       \* decode: the byte buffer handed to read_from
    hdr,       \* pack: the Header converted to a byte
    out,       \* the Box<[u8]> returned by as_bytes
    res,       \* the io::Result<Message> returned by read_from
    byte,      \* pack: the u8 made from hdr
    unpacked   \* pack: the Header made from byte

vars == <<op, pc, msg, buf, hdr, out, res, byte, unpacked>>

(***************************************************************************)
(* Bounds of the model.                                                    *)
(***************************************************************************)
\* longest payload (bytes after the header byte) of a Message or a buffer
MaxPayload == 2

\* the values payload bytes are drawn from (header bytes range over all of u8)
PayloadBytes == {0, 7, 171, 255}

\* a variable that holds no value yet
Absent == [absent |-> TRUE]

(***************************************************************************)
(* u8 arithmetic.                                                          *)
(***************************************************************************)
U8 == 0..255

RECURSIVE BitAnd(_, _)
BitAnd(a, b) ==
    IF a = 0 \/ b = 0 THEN 0
    ELSE (IF a % 2 = 1 /\ b % 2 = 1 THEN 1 ELSE 0) + 2 * BitAnd(a \div 2, b \div 2)

RECURSIVE BitOr(_, _)
BitOr(a, b) ==
    IF a = 0 THEN b
    ELSE IF b = 0 THEN a
    ELSE (IF a % 2 = 1 \/ b % 2 = 1 THEN 1 ELSE 0) + 2 * BitOr(a \div 2, b \div 2)

\* v << n on u8: the bits shifted out of the byte are dropped
Shl(v, n) == (v * (2 ^ n)) % 256

\* v >> n on u8
Shr(v, n) == v \div (2 ^ n)

(***************************************************************************)
(* mod message_type                                                        *)
(***************************************************************************)
HANDSHAKE == 0
HID_CONTROL == 1
GET_REPORT == 4
SET_REPORT == 5
GET_PROTOCOL == 6
SET_PROTOCOL == 7
DATA == 10

(***************************************************************************)
(* Option and io::Result values.                                           *)
(***************************************************************************)
Some(x) == [some |-> TRUE, value |-> x]
None == [some |-> FALSE]

Ok(x) == [ok |-> TRUE, value |-> x]
Err(kind) == [ok |-> FALSE, kind |-> kind]

\* io::ErrorKind of the two failures of read_from
UnexpectedEof == "UnexpectedEof"
InvalidData == "InvalidData"

(***************************************************************************)
(* struct Header(MessageType, Parameter)                                   *)
(***************************************************************************)
Header_new(message_type, parameter) ==
    [message_type |-> message_type, parameter |-> parameter]

Header_message_type(h) == h.message_type

Header_parameter(h) == h.parameter

\* a plausible slip: the type nibble is taken without the shift
Header_from_u8_NoShift(v) == Header_new(BitAnd(v, 15), BitAnd(v, 15))

\* a plausible slip: the parameter is taken without the mask
Header_from_u8_NoMask(v) == Header_new(BitAnd(Shr(v, 4), 15), v)

\* impl From<u8> for Header
Header_from_u8(v) == Header_new(BitAnd(Shr(v, 4), 15), BitAnd(v, 15))

\* a plausible slip: the operands grouped as message_type << (4 | parameter)
u8_from_Header_Precedence(h) ==
    Shl(Header_message_type(h), BitOr(4, Header_parameter(h)) % 8)

\* impl From<Header> for u8: message_type << 4 | parameter
u8_from_Header(h) == BitOr(Shl(Header_message_type(h), 4), Header_parameter(h))

(***************************************************************************)
(* enum Message                                                            *)
(***************************************************************************)
Handshake(parameter) == [variant |-> "Handshake", parameter |-> parameter]
HidControl(parameter) == [variant |-> "HidControl", parameter |-> parameter]
GetReport(parameter, data) ==
    [variant |-> "GetReport", parameter |-> parameter, data |-> data]
SetReport(parameter, data) ==
    [variant |-> "SetReport", parameter |-> parameter, data |-> data]
GetProtocol(parameter) == [variant |-> "GetProtocol", parameter |-> parameter]
SetProtocol(parameter) == [variant |-> "SetProtocol", parameter |-> parameter]
Data(parameter, data) ==
    [variant |-> "Data", parameter |-> parameter, data |-> data]

Message_parameter(m) == m.parameter

\* a plausible slip: the codes of GetReport and SetReport exchanged
Message_message_type_Swapped(m) ==
    CASE m.variant = "Handshake" -> HANDSHAKE
      [] m.variant = "HidControl" -> HID_CONTROL
      [] m.variant = "GetReport" -> SET_REPORT
      [] m.variant = "SetReport" -> GET_REPORT
      [] m.variant = "GetProtocol" -> GET_PROTOCOL
      [] m.variant = "SetProtocol" -> SET_PROTOCOL
      [] m.variant = "Data" -> DATA

Message_message_type(m) ==
    CASE m.variant = "Handshake" -> HANDSHAKE
      [] m.variant = "HidControl" -> HID_CONTROL
      [] m.variant = "GetReport" -> GET_REPORT
      [] m.variant = "SetReport" -> SET_REPORT
      [] m.variant = "GetProtocol" -> GET_PROTOCOL
      [] m.variant = "SetProtocol" -> SET_PROTOCOL
      [] m.variant = "Data" -> DATA

Message_header(m) == Header_new(Message_message_type(m), Message_parameter(m))

\* a plausible slip: the Data variant left out of the payload-carrying arm
Message_data_NoData(m) ==
    IF m.variant \in {"GetReport", "SetReport"} THEN Some(m.data) ELSE None

Message_data(m) ==
    IF m.variant \in {"GetReport", "SetReport", "Data"} THEN Some(m.data) ELSE None

(***************************************************************************)
(* <&[u8] as Read>::read_exact for a one-byte destination: the byte read   *)
(* and the slice advanced past it, or UnexpectedEof on an empty slice.     *)
(***************************************************************************)
\* a plausible slip: a short read leaves the zero-initialised byte in place
read_exact_Lenient(data) ==
    IF Len(data) < 1
    THEN Ok([header_byte |-> 0, data |-> data])
    ELSE Ok([header_byte |-> data[1], data |-> Tail(data)])

read_exact(data) ==
    IF Len(data) < 1
    THEN Err(UnexpectedEof)
    ELSE Ok([header_byte |-> data[1], data |-> Tail(data)])

\* the match of read_from on the header's message type
Dispatch(header, data) ==
    CASE Header_message_type(header) = HANDSHAKE ->
            Ok(Handshake(Header_parameter(header)))
      [] Header_message_type(header) = HID_CONTROL ->
            Ok(HidControl(Header_parameter(header)))
      [] Header_message_type(header) = GET_REPORT ->
            Ok(GetReport(Header_parameter(header), data))
      [] Header_message_type(header) = SET_REPORT ->
            Ok(SetReport(Header_parameter(header), data))
      [] Header_message_type(header) = GET_PROTOCOL ->
            Ok(GetProtocol(Header_parameter(header)))
      [] Header_message_type(header) = SET_PROTOCOL ->
            Ok(SetProtocol(Header_parameter(header)))
      [] Header_message_type(header) = DATA ->
            Ok(Data(Header_parameter(header), data))
      [] OTHER -> Err(InvalidData)

\* a plausible slip: an unknown message type falls through to Data
read_from_Fallthrough(data) ==
    LET r == read_exact(data) IN
    IF ~r.ok THEN r
    ELSE LET header == Header_from_u8(r.value.header_byte)
             d == Dispatch(header, r.value.data) IN
         IF d.ok THEN d ELSE Ok(Data(Header_parameter(header), r.value.data))

\* a plausible slip: the DATA arm missing from the match
read_from_NoDataArm(data) ==
    LET r == read_exact(data) IN
    IF ~r.ok THEN r
    ELSE LET header == Header_from_u8(r.value.header_byte) IN
         IF Header_message_type(header) = DATA
         THEN Err(InvalidData)
         ELSE Dispatch(header, r.value.data)

\* a plausible slip: the payload copied from the whole buffer, header included
read_from_WholeBuffer(data) ==
    LET r == read_exact(data) IN
    IF ~r.ok THEN r
    ELSE Dispatch(Header_from_u8(r.value.header_byte), data)

\* Message::read_from
read_from(data) ==
    LET r == read_exact(data) IN
    IF ~r.ok THEN r
    ELSE Dispatch(Header_from_u8(r.value.header_byte), r.value.data)

\* a plausible slip: the payload never chained after the header byte
as_bytes_HeaderOnly(m) == <<u8_from_Header(Message_header(m))>>

\* Message::as_bytes
as_bytes(m) ==
    LET parameter_iter == <<u8_from_Header(Message_header(m))>>
        data == Message_data(m) IN
    IF data.some THEN parameter_iter \o data.value ELSE parameter_iter

(***************************************************************************)
(* Inputs.                                                                 *)
(***************************************************************************)
Payloads == UNION {[1..n -> PayloadBytes] : n \in 0..MaxPayload}

Messages ==
    {Handshake(p) : p \in U8} \cup {HidControl(p) : p \in U8}
    \cup {GetProtocol(p) : p \in U8} \cup {SetProtocol(p) : p \in U8}
    \cup {GetReport(p, d) : p \in U8, d \in Payloads}
    \cup {SetReport(p, d) : p \in U8, d \in Payloads}
    \cup {Data(p, d) : p \in U8, d \in Payloads}

Buffers == {<<>>} \cup {<<b>> \o d : b \in U8, d \in Payloads}

Headers == {Header_new(t, p) : t \in U8, p \in U8}

(***************************************************************************)
(* The state machine.                                                      *)
(***************************************************************************)
Init ==
    /\ pc = "start"
    /\ out = Absent /\ res = Absent /\ byte = Absent /\ unpacked = Absent
    /\ \/ op = "encode" /\ msg \in Messages /\ buf = Absent /\ hdr = Absent
       \/ op = "decode" /\ msg = Absent /\ buf \in Buffers /\ hdr = Absent
       \/ op = "pack" /\ msg = Absent /\ buf = Absent /\ hdr \in Headers

\* m.as_bytes()
AsBytes ==
    /\ op = "encode" /\ pc = "start"
    /\ out' = as_bytes(msg)
    /\ pc' = "encoded"
    /\ UNCHANGED <<op, msg, buf, hdr, res, byte, unpacked>>

\* Message::read_from(&m.as_bytes())
ReadBack ==
    /\ op = "encode" /\ pc = "encoded"
    /\ res' = read_from(out)
    /\ pc' = "done"
    /\ UNCHANGED <<op, msg, buf, hdr, out, byte, unpacked>>

\* Message::read_from(buf)
ReadFrom ==
    /\ op = "decode" /\ pc = "start"
    /\ res' = read_from(buf)
    /\ pc' = "decoded"
    /\ UNCHANGED <<op, msg, buf, hdr, out, byte, unpacked>>

\* Message::read_from(buf)?.as_bytes()
ReEncode ==
    /\ op = "decode" /\ pc = "decoded"
    /\ res.ok
    /\ out' = as_bytes(res.value)
    /\ pc' = "done"
    /\ UNCHANGED <<op, msg, buf, hdr, res, byte, unpacked>>

\* u8::from(Header::new(t, p))
HeaderToByte ==
    /\ op = "pack" /\ pc = "start"
    /\ byte' = u8_from_Header(hdr)
    /\ pc' = "packed"
    /\ UNCHANGED <<op, msg, buf, hdr, out, res, unpacked>>

\* Header::from(byte)
ByteToHeader ==
    /\ op = "pack" /\ pc = "packed"
    /\ unpacked' = Header_from_u8(byte)
    /\ pc' = "done"
    /\ UNCHANGED <<op, msg, buf, hdr, out, res, byte>>

Next ==
    \/ AsBytes
    \/ ReadBack
    \/ ReadFrom
    \/ ReEncode
    \/ HeaderToByte
    \/ ByteToHeader

Spec == Init /\ [][Next]_vars

(***************************************************************************)
(* Properties.  The nibbles of a byte are taken here by division, not by   *)
(* the codec's own shifts and masks.                                       *)
(***************************************************************************)
HighNibble(b) == b \div 16
LowNibble(b) == b % 16

SupportedTypes ==
    {HANDSHAKE, HID_CONTROL, GET_REPORT, SET_REPORT, GET_PROTOCOL, SET_PROTOCOL, DATA}
PayloadTypes == {GET_REPORT, SET_REPORT, DATA}
ParameterOnlyTypes == {HANDSHAKE, HID_CONTROL, GET_PROTOCOL, SET_PROTOCOL}

PayloadVariants == {"GetReport", "SetReport", "Data"}
ParameterOnlyVariants == {"Handshake", "HidControl", "GetProtocol", "SetProtocol"}

\* the wire code of each variant, as the table of spec section 6 gives it
WireCode(variant) ==
    CASE variant = "Handshake" -> 0
      [] variant = "HidControl" -> 1
      [] variant = "GetReport" -> 4
      [] variant = "SetReport" -> 5
      [] variant = "GetProtocol" -> 6
      [] variant = "SetProtocol" -> 7
      [] variant = "Data" -> 10

\* the variant of each wire code
VariantName(code) ==
    CASE code = 0 -> "Handshake"
      [] code = 1 -> "HidControl"
      [] code = 4 -> "GetReport"
      [] code = 5 -> "SetReport"
      [] code = 6 -> "GetProtocol"
      [] code = 7 -> "SetProtocol"
      [] code = 10 -> "Data"

RoundTripDone == op = "encode" /\ pc = "done"
Decoded == op = "decode" /\ pc \in {"decoded", "done"}
Encoded == op = "encode" /\ pc \in {"encoded", "done"}

\* C1 as stated: for EVERY constructible Message m, any u8 parameter included,
\* read_from(m.as_bytes()) is Ok(m).
C1_RoundTripAnyParameter == RoundTripDone => res = Ok(msg)

\* C1 amended: for every constructible Message m whose parameter fits in four
\* bits (0..15), read_from(m.as_bytes()) succeeds and returns a value equal to m.
C1_RoundTripNibbleParameter ==
    (RoundTripDone /\ msg.parameter <= 15) => res = Ok(msg)

C1_Witness ==
    /\ RoundTripDone
    /\ msg.variant = "SetReport" /\ msg.parameter = 15 /\ Len(msg.data) = MaxPayload
    /\ res = Ok(msg)

\* C2: for all t and p in 0..15, the Header made from the byte made from
\* Header::new(t, p) has message_type() = t and parameter() = p.
C2_HeaderPackingRoundTrip ==
    (op = "pack" /\ pc = "done" /\ hdr.message_type < 16 /\ hdr.parameter < 16)
        => /\ Header_message_type(unpacked) = hdr.message_type
           /\ Header_parameter(unpacked) = hdr.parameter

C2_Witness ==
    /\ op = "pack" /\ pc = "done"
    /\ hdr.message_type = 10 /\ hdr.parameter = 3
    /\ byte = 163
    /\ unpacked = hdr

\* C3: read_from on a non-empty buffer whose first byte has a message type
\* nibble outside the seven supported codes fails with InvalidData and builds
\* no Message, whatever the parameter nibble and the trailing bytes.
C3_UnsupportedTypeRejected ==
    (Decoded /\ Len(buf) > 0 /\ HighNibble(buf[1]) \notin SupportedTypes)
        => /\ res = Err(InvalidData)
           /\ pc # "done"

C3_Witness ==
    /\ Decoded /\ Len(buf) = 1 + MaxPayload
    /\ HighNibble(buf[1]) = 2 /\ LowNibble(buf[1]) = 9
    /\ res = Err(InvalidData)

\* C4: read_from on a zero-length buffer fails with the end-of-input error,
\* which is not the invalid-message-type error, and returns no Message.
C4_EmptyBufferTruncated ==
    (Decoded /\ Len(buf) = 0)
        => /\ ~res.ok
           /\ res.kind = UnexpectedEof
           /\ res.kind # InvalidData
           /\ pc # "done"

C4_Witness == Decoded /\ buf = <<>> /\ res = Err(UnexpectedEof)

\* C5: read_from returns exactly one of Ok(Message), the truncation error and
\* the invalid-message-type error, and Ok exactly when the buffer is non-empty
\* and the high nibble of its first byte is a supported message type.
C5_ReadFromTotal ==
    Decoded
        => /\ \/ res.ok /\ res.value \in Messages
              \/ res = Err(UnexpectedEof)
              \/ res = Err(InvalidData)
           /\ res.ok <=> (Len(buf) > 0 /\ HighNibble(buf[1]) \in SupportedTypes)

C5_Witness ==
    /\ Decoded /\ Len(buf) = 1 + MaxPayload
    /\ HighNibble(buf[1]) = 10
    /\ res.ok

\* C6: a buffer whose first byte has type nibble GET_REPORT, SET_REPORT or
\* DATA decodes to the matching variant, with the low nibble of the first
\* byte as parameter and all the bytes after the first, in order, as payload.
C6_PayloadVariantsDecoded ==
    (Decoded /\ Len(buf) > 0 /\ HighNibble(buf[1]) \in PayloadTypes)
        => res = Ok([variant |-> VariantName(HighNibble(buf[1])),
                     parameter |-> LowNibble(buf[1]),
                     data |-> SubSeq(buf, 2, Len(buf))])

\* both a one-byte buffer (0xA1, empty payload) and a longer one are covered
C6_Witness == Decoded /\ buf = <<161>> /\ res = Ok(Data(1, <<>>))

\* C7: a buffer whose first byte has type nibble HANDSHAKE, HID_CONTROL,
\* GET_PROTOCOL or SET_PROTOCOL decodes to the matching parameter-only variant
\* with the low nibble of the first byte; the bytes that follow play no part.
C7_ParameterOnlyVariantsDecoded ==
    (Decoded /\ Len(buf) > 0 /\ HighNibble(buf[1]) \in ParameterOnlyTypes)
        => res = Ok([variant |-> VariantName(HighNibble(buf[1])),
                     parameter |-> LowNibble(buf[1])])

C7_Witness ==
    /\ Decoded /\ Len(buf) = 1 + MaxPayload
    /\ buf[1] = 113
    /\ res = Ok(SetProtocol(1))

\* C8 as stated: for EVERY constructible Message m, the first byte of
\* m.as_bytes() has bits 7-4 = m.message_type() and bits 3-0 = m.parameter().
C8_HeaderByteAnyParameter ==
    Encoded
        => /\ Message_message_type(msg) = WireCode(msg.variant)
           /\ HighNibble(out[1]) = Message_message_type(msg)
           /\ LowNibble(out[1]) = Message_parameter(msg)

\* C8 amended: for every constructible Message m whose parameter fits in four
\* bits (0..15), the first byte of m.as_bytes() has bits 7-4 equal to
\* m.message_type() and bits 3-0 equal to m.parameter().
C8_HeaderByteNibbleParameter ==
    (Encoded /\ msg.parameter <= 15)
        => /\ Message_message_type(msg) = WireCode(msg.variant)
           /\ HighNibble(out[1]) = Message_message_type(msg)
           /\ LowNibble(out[1]) = Message_parameter(msg)

C8_Witness ==
    /\ Encoded
    /\ msg = Data(3, <<171>>)
    /\ out = <<163, 171>>

\* C9: as_bytes always returns bytes; one byte for the four parameter-only
\* variants; 1 + len(payload) bytes for GetReport, SetReport and Data, the
\* bytes after the first being the payload in order.
C9_AsBytesShape ==
    Encoded
        => /\ out \in Seq(U8)
           /\ msg.variant \in ParameterOnlyVariants => Len(out) = 1
           /\ msg.variant \in PayloadVariants
                => /\ Len(out) = 1 + Len(msg.data)
                   /\ SubSeq(out, 2, Len(out)) = msg.data

C9_Witness ==
    /\ Encoded
    /\ msg.variant = "Data" /\ msg.parameter > 15 /\ Len(msg.data) = MaxPayload
    /\ Len(out) = 1 + MaxPayload

\* C10: for every buffer b that read_from accepts, read_from(b).as_bytes() is b
\* when the type is GET_REPORT, SET_REPORT or DATA, and the one byte b[0] when
\* it is HANDSHAKE, HID_CONTROL, GET_PROTOCOL or SET_PROTOCOL.
C10_ReEncodeReproducesWire ==
    (op = "decode" /\ pc = "done")
        => /\ HighNibble(buf[1]) \in PayloadTypes => out = buf
           /\ HighNibble(buf[1]) \in ParameterOnlyTypes => out = <<buf[1]>>
           /\ HighNibble(buf[1]) \in SupportedTypes

C10_Witness ==
    /\ op = "decode" /\ pc = "done"
    /\ buf = <<65, 7>>
    /\ res = Ok(GetReport(1, <<7>>))
    /\ out = <<65, 7>>

====
